---- MODULE Spec2Model ----
(***************************************************************************)
(* The dump segmentation engine of mysql-dump-splitter (the cobra version  *)
(* of the scanner: Scanner.start and what it calls).                       *)
(*                                                                         *)
(* A string is a sequence of tokens.  A token stands for a run of          *)
(* characters that the program never looks inside: the prefixes it tests   *)
(* ("--", "/*!", "50001 DROP VIEW", "DROP TABLE", "LOCK TABLES"), the      *)
(* backtick, the two line terminators and opaque text.  Every line that    *)
(* starts with the characters /*! starts with the token "/*!", so a prefix *)
(* test on characters is a prefix test on tokens.                          *)
(*                                                                         *)
(* The input is read lazily: each rdr.Scan() draws the next raw line from  *)
(* the catalogue Lines, or ends the stream (end of input, a read error, a  *)
(* line over the 1 GiB ceiling).  One action is one raw line consumed (or  *)
(* the pushed-back line processed) with everything start() does for it.    *)
(* Diagnostics on stderr (cfg.verbose) change no state and are left out.   *)
(***************************************************************************)
EXTENDS Integers, Sequences, FiniteSets, TLC

VARIABLES
    pc,        \* "start", "header" (first loop of start), "body" (second loop),
               \* "done" (start returned nil or a read error), "error", "panic"
    cfg,       \* Scanner.cfg (create rewrites cfg.outfile "-" -> "/dev/stdout")
    rdr,       \* the bufio.Scanner: "open", "eof", "ioerr", "toolong"
    count,     \* Scanner.count
    line,      \* Scanner.line
    skip,      \* Scanner.skip
    headers,   \* Scanner.headers (bytes.Buffer)
    typ,       \* Scanner.typ
    table,     \* Scanner.table
    ignore,    \* Scanner.ignore
    out,       \* Scanner.out / outClose: the handle last set by setFile
    created,   \* Scanner.created
    handles,   \* the operating system's open output handles (paths, in open order)
    fs,        \* the bytes of every file written in this run, by path
    dirState,  \* what os.Stat(outdir) answers: "unknown" until first asked, then "dir"
    err,       \* what the run returned: [kind, line]
    wfaults,   \* history: writes the operating system failed
    wlog       \* history: the lines writeLine delivered, [n, typ, table, path, text]

vars == <<pc, cfg, rdr, count, line, skip, headers, typ, table, ignore, out,
          created, handles, fs, dirState, err, wfaults, wlog>>

(***************************************************************************)
(* Bounds                                                                  *)
(***************************************************************************)
MaxLines == 3
MaxWriteFaults == 1

(***************************************************************************)
(* Tokens, lines and entities                                              *)
(***************************************************************************)
BT == "BT"          \* the backtick character
LF == "LF"
CRLF == "CRLF"

T1 == <<"t1">>
T2 == <<"t2">>

CommentPrefix == <<"--">>
HeaderPrefix == <<"/*!">>
ViewPrefix == <<"/*!", "50001 DROP VIEW">>
SchemaPrefix == <<"DROP TABLE">>
DataPrefix == <<"LOCK TABLES">>

Blank == <<>>
Comment == <<"--", " note">>
Directive == <<"/*!", "40101 SET x */;">>
DropView(e) == ViewPrefix \o <<" IF EXISTS ", BT>> \o e \o <<BT, "*/;">>
DropTable(e) == SchemaPrefix \o <<" IF EXISTS ", BT>> \o e \o <<BT, ";">>
LockTables(e) == DataPrefix \o <<" ", BT>> \o e \o <<BT, " WRITE;">>
Insert == <<"INSERT INTO x VALUES (1);">>
NoTick == <<"DROP TABLE", " t1;">>
OneTick == <<"LOCK TABLES", " ", BT, "t1 WRITE;">>

Lines ==
    { Blank, Comment, Directive, DropView(T2), DropTable(T1), DropTable(T2),
      LockTables(T1), LockTables(T2), Insert, NoTick, OneTick, DropTable(<<>>) }

(***************************************************************************)
(* Configurations: every combination the flags can produce over these      *)
(* values.  A StringSlice flag is nil when absent, and is a non-nil slice   *)
(* when given, empty for an empty argument.                                *)
(***************************************************************************)
NilList == [isNil |-> TRUE, elems |-> <<>>]
List(s) == [isNil |-> FALSE, elems |-> s]

Includes == { NilList, List(<<>>), List(<<T1>>) }
Excludes == { NilList, List(<<T1>>) }
ExcludeDatas == { NilList, List(<<T1>>) }
Modes == { "data", "schema", "both", "all" }
Dests == { [outfile |-> "-", outdir |-> ""], [outfile |-> "", outdir |-> "d"],
           [outfile |-> "", outdir |-> ""], [outfile |-> "-", outdir |-> "d"] }

Policies ==
    [include : Includes, exclude : Excludes, excludeData : ExcludeDatas, mode : Modes]

DefaultPolicy == [include |-> NilList, exclude |-> NilList, excludeData |-> NilList, mode |-> "both"]

Config(d, p, c) ==
    [outfile |-> d.outfile, outdir |-> d.outdir, include |-> p.include,
     exclude |-> p.exclude, excludeData |-> p.excludeData, mode |-> p.mode,
     compress |-> c]

\* every policy and destination uncompressed; compression with the default policy
Configs ==
    { Config(d, p, FALSE) : d \in Dests, p \in Policies }
    \cup { Config(d, DefaultPolicy, TRUE) : d \in Dests }

(***************************************************************************)
(* strings, slices                                                         *)
(***************************************************************************)
HasPrefix(s, p) == Len(s) >= Len(p) /\ SubSeq(s, 1, Len(p)) = p

\* 0-based index of the first c in s, -1 when there is none
IndexByte(s, c) ==
    IF \E i \in 1..Len(s) : s[i] = c
    THEN (CHOOSE i \in 1..Len(s) : s[i] = c /\ \A j \in 1..(i - 1) : s[j] # c) - 1
    ELSE -1

\* 0-based index of the last c in s, -1 when there is none
LastIndexByte(s, c) ==
    IF \E i \in 1..Len(s) : s[i] = c
    THEN (CHOOSE i \in 1..Len(s) : s[i] = c /\ \A j \in (i + 1)..Len(s) : s[j] # c) - 1
    ELSE -1

\* faulty variant: a slice expression out of range yields the empty string
SliceLenient(s, lo, hi) == TRUE

\* s[lo:hi] is in range (anything else is a run-time panic)
SliceOK(s, lo, hi) == 0 <= lo /\ lo <= hi /\ hi <= Len(s)
Slice(s, lo, hi) == SubSeq(s, lo + 1, hi)

Contains(list, x) == \E i \in 1..Len(list.elems) : list.elems[i] = x

IsSkippable(l) == l = <<>> \/ HasPrefix(l, CommentPrefix)

(***************************************************************************)
(* The scanner state the body of start() works on, as one record           *)
(***************************************************************************)
NilOut == [path |-> <<>>, gz |-> FALSE]
NoErr == [kind |-> "none", line |-> 0]
Stale == <<"stale bytes">>     \* what a path may hold from before the run

Cur ==
    [pc |-> pc, cfg |-> cfg, typ |-> typ, table |-> table, ignore |-> ignore,
     out |-> out, created |-> created, handles |-> handles, fs |-> fs,
     dirState |-> dirState, err |-> err, wfaults |-> wfaults, wlog |-> wlog]

\* a run-time panic: the process dies where it stands, nothing is closed or returned
Panic(m, kind) == [m EXCEPT !.pc = "panic", !.err = [kind |-> kind, line |-> 0]]
Fail(m, kind) == [m EXCEPT !.pc = "error", !.err = [kind |-> kind, line |-> 0]]

\* the faults the operating system may answer one step with
Envs == { "ok", "staterr", "notdir", "mkdirfail", "createfail", "openfail", "writefail" }

(***************************************************************************)
(* Output Router                                                           *)
(***************************************************************************)
OnDisk(files, f) == IF f \in DOMAIN files THEN files[f] ELSE Stale

Put(files, f, bytes) == [g \in DOMAIN files \cup {f} |-> IF g = f THEN bytes ELSE files[g]]

\* faulty variant: the creation keeps what the file held (no O_TRUNC)
OsCreateKeep(files, f) == Put(files, f, OnDisk(files, f))

\* os.Create: the file exists afterwards and is empty
OsCreate(files, f) == Put(files, f, <<>>)

\* faulty variant: the reopen truncates (O_TRUNC in place of O_APPEND)
OsOpenTruncate(files, f) == Put(files, f, <<>>)

\* os.OpenFile(O_APPEND|O_WRONLY): the file keeps its bytes
OsOpenAppend(files, f) == Put(files, f, OnDisk(files, f))

RemoveFirst(hs, f) ==
    IF \E i \in 1..Len(hs) : hs[i] = f
    THEN LET i == CHOOSE i \in 1..Len(hs) : hs[i] = f /\ \A j \in 1..(i - 1) : hs[j] # f
         IN  SubSeq(hs, 1, i - 1) \o SubSeq(hs, i + 1, Len(hs))
    ELSE hs

\* Scanner.setFile: s.out and s.outClose now belong to the file just opened
SetFile(m, f) ==
    [m EXCEPT !.out = [path |-> f, gz |-> m.cfg.compress], !.handles = Append(@, f)]

\* s.outClose(): gw.Close() when compressing, then f.Close()
OutClose(m) == [m EXCEPT !.handles = RemoveFirst(@, m.out.path)]

\* fmt.Fprint / fmt.Fprintln on s.out; the error is dropped by every caller
Fprint(m, bytes, env) ==
    IF m.out = NilOut THEN Panic(m, "nilwriter")   \* Write on a nil io.Writer
    ELSE IF env = "writefail" /\ m.wfaults < MaxWriteFaults
         THEN [m EXCEPT !.wfaults = @ + 1]
    ELSE [m EXCEPT !.fs = Put(@, m.out.path, OnDisk(@, m.out.path) \o bytes)]

\* fmt.Fprintln(s.out, s.headers.String())
WriteHeaders(m, hdr, env) == Fprint(m, hdr \o <<LF>>, env)

\* Scanner.ensureOut
EnsureOut(m, env) ==
    IF m.dirState = "dir" THEN m
    ELSE IF env = "staterr" THEN Panic(m, "stat")         \* fi is nil: fi.IsDir() panics
    ELSE IF env = "notdir" THEN Fail(m, "notdir")
    ELSE IF env = "mkdirfail" THEN Fail(m, "mkdir")
    ELSE [m EXCEPT !.dirState = "dir"]

\* filepath.Join(s.cfg.outdir, fName [+ ".gz"])
FileName(c, fName) ==
    <<c.outdir, "/">> \o fName \o (IF c.compress THEN <<".gz">> ELSE <<>>)

\* faulty variant: the single-stream branch without its "already open" return
CreateSingleReopen(m, hdr, env) ==
    LET o == IF m.cfg.outfile = "-" THEN "/dev/stdout" ELSE m.cfg.outfile
        m1 == [m EXCEPT !.cfg.outfile = o]
    IN  IF env = "createfail" THEN Fail(m1, "create")
        ELSE WriteHeaders(SetFile([m1 EXCEPT !.fs = OsCreate(@, <<o>>)], <<o>>), hdr, env)

\* create, single-stream branch
CreateSingle(m, hdr, env) ==
    IF m.out # NilOut THEN m
    ELSE LET o == IF m.cfg.outfile = "-" THEN "/dev/stdout" ELSE m.cfg.outfile
             m1 == [m EXCEPT !.cfg.outfile = o]
         IN  IF env = "createfail" THEN Fail(m1, "create")
             ELSE WriteHeaders(SetFile([m1 EXCEPT !.fs = OsCreate(@, <<o>>)], <<o>>), hdr, env)

\* faulty variant: the previous handle is left open
KeepPrevious(m) == m

\* create: the previous handle is closed before anything else
ClosePrevious(m) == IF m.out # NilOut THEN OutClose(m) ELSE m

\* create, per-entity branch after ensureOut: append to a file of this run, or create it
OpenEntity(m, f, hdr, env) ==
    IF f \in m.created
    THEN IF env = "openfail" THEN Fail(m, "open")
         ELSE SetFile([m EXCEPT !.fs = OsOpenAppend(@, f)], f)
    ELSE LET m1 == [m EXCEPT !.created = @ \cup {f}]
         IN  IF env = "createfail" THEN Fail(m1, "create")
             ELSE WriteHeaders(SetFile([m1 EXCEPT !.fs = OsCreate(@, f)], f), hdr, env)

\* Scanner.create
Create(m, fName, hdr, env) ==
    IF m.cfg.outfile # "" THEN CreateSingle(m, hdr, env)
    ELSE LET m1 == EnsureOut(ClosePrevious(m), env)
         IN  IF m1.pc # "body" THEN m1
             ELSE OpenEntity(m1, FileName(m1.cfg, fName), hdr, env)

\* Scanner.writeLine
WriteLine(m, l, n, env) ==
    LET m1 == Fprint(m, l \o <<CRLF>>, env)
    IN  IF m1.pc = "body" /\ m1.wfaults = m.wfaults
        THEN [m1 EXCEPT !.wlog = Append(@, [n |-> n, typ |-> m.typ, table |-> m.table,
                                            path |-> m.out.path, text |-> l])]
        ELSE m1

(***************************************************************************)
(* Segment Classifier and Filter Evaluator                                 *)
(***************************************************************************)
\* faulty variant: the marker is looked for anywhere in the line
ClassifyAnywhere(l) ==
    LET Occurs(p) == \E i \in 0..Len(l) : HasPrefix(SubSeq(l, i + 1, Len(l)), p)
    IN  IF Occurs(ViewPrefix) THEN "view"
        ELSE IF Occurs(SchemaPrefix) THEN "schema"
        ELSE IF Occurs(DataPrefix) THEN "data"
        ELSE ""

\* isViewStart() || isSchemaStart() || isDataStart(): the kind a line opens, "" for none
Classify(l) ==
    IF HasPrefix(l, ViewPrefix) THEN "view"
    ELSE IF HasPrefix(l, SchemaPrefix) THEN "schema"
    ELSE IF HasPrefix(l, DataPrefix) THEN "data"
    ELSE ""

\* faulty variant: the filter without its excludeData test
IgnoreDecisionNoExcludeData(k, e, c) ==
    \/ (~c.include.isNil /\ ~Contains(c.include, e))
    \/ Contains(c.exclude, e)
    \/ (k = "data" /\ c.mode = "schema")
    \/ (k = "schema" /\ c.mode = "data")

\* the value scanTableName assigns to s.ignore
IgnoreDecision(k, e, c) ==
    \/ (~c.include.isNil /\ ~Contains(c.include, e))
    \/ Contains(c.exclude, e)
    \/ (k = "data" /\ c.mode = "schema")
    \/ (k = "schema" /\ c.mode = "data")
    \/ (k = "data" /\ Contains(c.excludeData, e))

\* faulty variant: the name ends at the backtick that follows the first one
ScanTableNameToNext(m, l) ==
    LET lo == IndexByte(l, BT) + 1
        rest == SubSeq(l, lo + 1, Len(l))
        hi == IF IndexByte(rest, BT) < 0 THEN -1 ELSE lo + IndexByte(rest, BT)
    IN  IF ~SliceOK(l, lo, hi) THEN Panic(m, "slice")
        ELSE LET e == Slice(l, lo, hi)
             IN  [m EXCEPT !.table = e, !.ignore = IgnoreDecision(m.typ, e, m.cfg)]

\* Scanner.scanTableName
ScanTableName(m, l) ==
    LET lo == IndexByte(l, BT) + 1
        hi == LastIndexByte(l, BT)
    IN  IF ~SliceOK(l, lo, hi) THEN Panic(m, "slice")
        ELSE LET e == Slice(l, lo, hi)
             IN  [m EXCEPT !.table = e, !.ignore = IgnoreDecision(m.typ, e, m.cfg)]

\* faulty variant: writeLine is not guarded
KeptAlways(m) == TRUE

\* the test that guards writeLine in the body loop
Kept(m) == ~m.ignore

\* faulty variant: a line that is no boundary line clears the ignore flag
BodyClearing(m, l, n, hdr, env) ==
    IF IsSkippable(l) THEN m
    ELSE IF Classify(l) # ""
    THEN LET m1 == ScanTableName([m EXCEPT !.typ = Classify(l)], l)
         IN  IF m1.pc # "body" \/ m1.ignore THEN m1
             ELSE LET m2 == Create(m1, m1.table \o <<".sql">>, hdr, env)
                  IN  IF m2.pc # "body" THEN m2
                      ELSE IF Kept(m2) THEN WriteLine(m2, l, n, env) ELSE m2
    ELSE WriteLine([m EXCEPT !.ignore = FALSE], l, n, env)

\* one iteration of the second loop of start() on line l (raw line number n)
Body(m, l, n, hdr, env) ==
    IF IsSkippable(l) THEN m
    ELSE IF Classify(l) # ""
    THEN LET m1 == ScanTableName([m EXCEPT !.typ = Classify(l)], l)
         IN  IF m1.pc # "body" \/ m1.ignore THEN m1
             ELSE LET m2 == Create(m1, m1.table \o <<".sql">>, hdr, env)
                  IN  IF m2.pc # "body" THEN m2
                      ELSE IF Kept(m2) THEN WriteLine(m2, l, n, env) ELSE m2
    ELSE IF Kept(m) THEN WriteLine(m, l, n, env) ELSE m

\* rdr.Err(): the sticky error of the reader; a reader whose held buffer was
\* handed out still reports the line over the ceiling
ErrKind(r) == IF r = "drained" THEN "toolong" ELSE r

\* faulty variant: start() returns without closing
FinishNoClose(m, r, n) ==
    [m EXCEPT !.pc = "done",
              !.err = IF r \in {"ioerr", "toolong", "drained"}
                      THEN [kind |-> ErrKind(r), line |-> n + 1] ELSE NoErr]

\* the end of start(): close what is open, then report the reader's error
Finish(m, r, n) ==
    LET m1 == IF m.out # NilOut THEN OutClose(m) ELSE m
    IN  [m1 EXCEPT !.pc = "done",
                   !.err = IF r \in {"ioerr", "toolong", "drained"}
                           THEN [kind |-> ErrKind(r), line |-> n + 1] ELSE NoErr]

Assign(m) ==
    /\ pc' = m.pc /\ cfg' = m.cfg /\ typ' = m.typ /\ table' = m.table
    /\ ignore' = m.ignore /\ out' = m.out /\ created' = m.created
    /\ handles' = m.handles /\ fs' = m.fs /\ dirState' = m.dirState
    /\ err' = m.err /\ wfaults' = m.wfaults /\ wlog' = m.wlog

(***************************************************************************)
(* Line Source                                                             *)
(***************************************************************************)
\* rdr.Scan() returned true with the raw line l: Scanner.Scan
Scan(l) ==
    /\ rdr = "open" /\ count < MaxLines
    /\ l \in Lines
    /\ count' = count + 1 /\ line' = l /\ rdr' = rdr

\* rdr.Scan() returned false: end of input, a read failure, or a line over the ceiling
ScanEnd(r) ==
    /\ r \in (IF rdr = "open" THEN {"eof", "ioerr", "toolong"} ELSE {rdr})
    /\ rdr' = r /\ count' = count /\ line' = line

\* what the reader holds of a line over the ceiling: the leading part that
\* filled its buffer
Held == {Comment, Insert, DropTable(T1)}

\* rdr.Scan() called again after it returned false for a line over the ceiling
\* (the second loop of start() after the first one ended that way): the reader
\* hands out what it holds as a line, once
ScanHeld(l) ==
    /\ rdr = "toolong" /\ count < MaxLines
    /\ l \in Held
    /\ count' = count + 1 /\ line' = l /\ rdr' = "drained"

(***************************************************************************)
(* Initial state and actions                                               *)
(***************************************************************************)
Init ==
    /\ pc = "start" /\ cfg \in Configs /\ rdr = "open" /\ count = 0
    /\ line = <<>> /\ skip = FALSE /\ headers = <<>> /\ typ = "" /\ table = <<>>
    /\ ignore = FALSE /\ out = NilOut /\ created = {} /\ handles = <<>>
    /\ fs = <<>> /\ dirState = "unknown" /\ err = NoErr /\ wfaults = 0 /\ wlog = <<>>

\* faulty variant: run() opens the dump without looking at outfile and outdir
RunDestUnchecked ==
    /\ pc = "start"
    /\ \E opened \in BOOLEAN :
         /\ pc' = IF cfg.mode \notin {"data", "schema", "both"} THEN "error"
                  ELSE IF ~opened THEN "error" ELSE "header"
         /\ err' = IF cfg.mode \notin {"data", "schema", "both"} THEN [kind |-> "mode", line |-> 0]
                   ELSE IF ~opened THEN [kind |-> "input", line |-> 0] ELSE NoErr
    /\ UNCHANGED <<cfg, rdr, count, line, skip, headers, typ, table, ignore, out,
                   created, handles, fs, dirState, wfaults, wlog>>

\* RunE and run(): validate the flags, open the dump
Run ==
    /\ pc = "start"
    /\ \E opened \in BOOLEAN :
         /\ pc' = IF cfg.mode \notin {"data", "schema", "both"} THEN "error"
                  ELSE IF (cfg.outfile = "") = (cfg.outdir = "") THEN "error"
                  ELSE IF ~opened THEN "error" ELSE "header"
         /\ err' = IF cfg.mode \notin {"data", "schema", "both"} THEN [kind |-> "mode", line |-> 0]
                   ELSE IF (cfg.outfile = "") = (cfg.outdir = "") THEN [kind |-> "dest", line |-> 0]
                   ELSE IF ~opened THEN [kind |-> "input", line |-> 0] ELSE NoErr
    /\ UNCHANGED <<cfg, rdr, count, line, skip, headers, typ, table, ignore, out,
                   created, handles, fs, dirState, wfaults, wlog>>

\* faulty variant: a blank or comment line ends the first loop
SkipLineEndsHeader ==
    /\ pc \in {"header", "body"} /\ ~skip
    /\ \E l \in Lines : IsSkippable(l) /\ Scan(l)
    /\ pc' = "body"
    /\ UNCHANGED <<cfg, skip, headers, typ, table, ignore, out, created,
                   handles, fs, dirState, err, wfaults, wlog>>

\* Next() inside either loop reads a blank or comment line and reads on
SkipLine ==
    /\ pc \in {"header", "body"} /\ ~skip
    /\ \E l \in Lines : IsSkippable(l) /\ Scan(l)
    /\ UNCHANGED <<pc, cfg, skip, headers, typ, table, ignore, out, created,
                   handles, fs, dirState, err, wfaults, wlog>>

\* faulty variant: a directive line joins the header block in the second loop too
HeaderCaptureAnytime ==
    /\ pc \in {"header", "body"} /\ ~skip
    /\ \E l \in Lines :
         /\ ~IsSkippable(l) /\ HasPrefix(l, HeaderPrefix) /\ Scan(l)
         /\ headers' = headers \o l \o <<LF>>
    /\ UNCHANGED <<pc, cfg, skip, typ, table, ignore, out, created, handles, fs,
                   dirState, err, wfaults, wlog>>

\* faulty variant: the first loop lets a view marker set the kind
HeaderCaptureViewStart ==
    /\ pc = "header"
    /\ \E l \in Lines :
         /\ ~IsSkippable(l) /\ HasPrefix(l, HeaderPrefix) /\ Scan(l)
         /\ headers' = headers \o l \o <<LF>>
         /\ typ' = IF HasPrefix(l, ViewPrefix) THEN "view" ELSE typ
    /\ UNCHANGED <<pc, cfg, skip, table, ignore, out, created, handles, fs,
                   dirState, err, wfaults, wlog>>

\* first loop: a line beginning with the directive marker joins the header block
HeaderCapture ==
    /\ pc = "header"
    /\ \E l \in Lines :
         /\ ~IsSkippable(l) /\ HasPrefix(l, HeaderPrefix) /\ Scan(l)
         /\ headers' = headers \o l \o <<LF>>
    /\ UNCHANGED <<pc, cfg, skip, typ, table, ignore, out, created, handles, fs,
                   dirState, err, wfaults, wlog>>

\* first loop: any other line ends it and is pushed back
HeaderEnd ==
    /\ pc = "header"
    /\ \E l \in Lines : ~IsSkippable(l) /\ ~HasPrefix(l, HeaderPrefix) /\ Scan(l)
    /\ skip' = TRUE /\ pc' = "body"
    /\ UNCHANGED <<cfg, headers, typ, table, ignore, out, created, handles, fs,
                   dirState, err, wfaults, wlog>>

\* first loop: Next() returned false
HeaderStop ==
    /\ pc = "header"
    /\ \E r \in {"eof", "ioerr", "toolong"} : ScanEnd(r)
    /\ pc' = "body"
    /\ UNCHANGED <<cfg, skip, headers, typ, table, ignore, out, created, handles,
                   fs, dirState, err, wfaults, wlog>>

\* faulty variant: the second loop forgets the pushed-back line
BodyPushbackDrop ==
    /\ pc = "body" /\ skip
    /\ skip' = FALSE
    /\ UNCHANGED <<pc, cfg, rdr, count, line, headers, typ, table, ignore, out,
                   created, handles, fs, dirState, err, wfaults, wlog>>

\* second loop: Next() hands back the pushed-back line
BodyPushback ==
    /\ pc = "body" /\ skip
    /\ skip' = FALSE
    /\ \E env \in Envs : Assign(Body(Cur, line, count, headers, env))
    /\ UNCHANGED <<rdr, count, line, headers>>

\* second loop: Next() reads a line and the loop body runs on it
BodyRead ==
    /\ pc = "body" /\ ~skip
    /\ \E l \in Lines :
         /\ ~IsSkippable(l) /\ Scan(l)
         /\ \E env \in Envs : Assign(Body(Cur, l, count + 1, headers, env))
    /\ UNCHANGED <<skip, headers>>

\* second loop, entered after the first loop stopped at a line over the ceiling:
\* Next() gets the held part of that line and the loop body runs on it
BodyReadHeld ==
    /\ pc = "body" /\ ~skip
    /\ \E l \in Held :
         /\ ScanHeld(l)
         /\ IF IsSkippable(l)
            THEN UNCHANGED <<pc, cfg, typ, table, ignore, out, created, handles,
                             fs, dirState, err, wfaults, wlog>>
            ELSE \E env \in Envs : Assign(Body(Cur, l, count + 1, headers, env))
    /\ UNCHANGED <<skip, headers>>

\* second loop: Next() returned false; start() closes and returns
BodyStop ==
    /\ pc = "body" /\ ~skip
    /\ \E r \in {"eof", "ioerr", "toolong", "drained"} :
         ScanEnd(r) /\ Assign(Finish(Cur, r, count))
    /\ UNCHANGED <<skip, headers>>

Next ==
    \/ Run
    \/ SkipLine
    \/ HeaderCapture
    \/ HeaderEnd
    \/ HeaderStop
    \/ BodyPushback
    \/ BodyRead
    \/ BodyReadHeld
    \/ BodyStop

Spec == Init /\ [][Next]_vars

(***************************************************************************)
(* The second loop on a wider catalogue of lines: prefixes in another case *)
(* or not at the start of the line, boundary lines with more than two      *)
(* backticks, adjacent backticks for each kind.  A run starts where the    *)
(* first loop has just pushed back the first line of the dump.             *)
(***************************************************************************)
MaxWideLines == 2

LowerDrop == <<"drop table", " IF EXISTS ", BT>> \o T1 \o <<BT, ";">>
Indented == <<" ">> \o DropTable(T1)
LowerLock == <<"lock tables", " ", BT>> \o T1 \o <<BT, " WRITE;">>
LockTwo == DataPrefix \o <<" ", BT>> \o T1 \o <<BT, " WRITE, ", BT>> \o T2 \o <<BT, " WRITE;">>
ViewTwo == ViewPrefix \o <<" ", BT, "db", BT, ".", BT>> \o T2 \o <<BT, "*/;">>

WideLines ==
    Lines \cup { LowerDrop, Indented, LowerLock, LockTwo, ViewTwo,
                 DropView(<<>>), LockTables(<<>>) }

WideConfigs ==
    { Config(d, p, FALSE) :
        d \in { [outfile |-> "-", outdir |-> ""], [outfile |-> "", outdir |-> "d"] },
        p \in { DefaultPolicy, [DefaultPolicy EXCEPT !.exclude = List(<<T1>>)] } }

WideInit ==
    /\ pc = "body" /\ cfg \in WideConfigs /\ rdr = "open" /\ count = 1
    /\ line \in {l \in WideLines : ~IsSkippable(l) /\ ~HasPrefix(l, HeaderPrefix)}
    /\ skip = TRUE /\ headers = <<>> /\ typ = "" /\ table = <<>>
    /\ ignore = FALSE /\ out = NilOut /\ created = {} /\ handles = <<>>
    /\ fs = <<>> /\ dirState = "unknown" /\ err = NoErr /\ wfaults = 0 /\ wlog = <<>>

\* second loop: Next() reads a line of the wider catalogue and the loop body runs on it
BodyReadWide ==
    /\ pc = "body" /\ ~skip
    /\ rdr = "open" /\ count < MaxWideLines + 1
    /\ \E l \in WideLines :
         /\ ~IsSkippable(l)
         /\ count' = count + 1 /\ line' = l /\ rdr' = rdr
         /\ \E env \in Envs : Assign(Body(Cur, l, count + 1, headers, env))
    /\ UNCHANGED <<skip, headers>>

WideNext ==
    \/ BodyPushback
    \/ BodyReadWide

WideSpec == WideInit /\ [][WideNext]_vars

(***************************************************************************)
(* Vocabulary of the properties                                            *)
(***************************************************************************)
PerEntity == cfg.outfile = "" /\ cfg.outdir # ""
SingleStream == cfg.outfile # "" /\ cfg.outdir = ""

\* this step ran the body of the second loop on line' (raw line number count')
BodyStep == pc = "body" /\ (skip \/ count' = count + 1) /\ ~IsSkippable(line')

\* what writeLine records for the line of this step
Entry == [n |-> count', typ |-> typ', table |-> table', path |-> out'.path, text |-> line']

\* the bytes the delivered lines of log put into file f, in log order
RECURSIVE Delivered(_, _)
Delivered(log, f) ==
    IF log = <<>> THEN <<>>
    ELSE (IF Head(log).path = f THEN Head(log).text \o <<CRLF>> ELSE <<>>)
         \o Delivered(Tail(log), f)

InInputOrder(log) == \A i, j \in 1..Len(log) : i < j => log[i].n < log[j].n

TwoTicks(l) == IndexByte(l, BT) >= 0 /\ IndexByte(l, BT) < LastIndexByte(l, BT)

\* the filter decision as the specification words it
ClaimedIgnore(k, e, c) ==
    \/ (c.include.elems # <<>> /\ ~Contains(c.include, e))
    \/ Contains(c.exclude, e)
    \/ (k = "data" /\ c.mode = "schema")
    \/ (k = "schema" /\ c.mode = "data")
    \/ (k = "data" /\ Contains(c.excludeData, e))

(***************************************************************************)
(* C1: the ignore flag held after a boundary line is the stated function   *)
(* of (kind, entity, policy): true exactly when include is non-empty and   *)
(* lacks the entity, or exclude has it, or data under mode schema, or      *)
(* schema under mode data, or data with the entity in excludeData.         *)
(***************************************************************************)
C1_FilterDecision ==
    (typ # "" /\ err.kind # "slice") => ignore = ClaimedIgnore(typ, table, cfg)

(***************************************************************************)
(* C2: a step that leaves the ignore flag set (the boundary line of an     *)
(* ignored segment, or any line after it) changes no output and creates no *)
(* file; a file created in a step is the kept current entity's file; and   *)
(* with include=[t1] only t1's lines are delivered, with exclude=[t1] and  *)
(* mode=data no line of t1 and no schema line is delivered.                *)
(***************************************************************************)
C2_IgnoredNeverWritten ==
    /\ [][ /\ ignore' => (fs' = fs /\ created' = created /\ wlog' = wlog)
           /\ created' \subseteq created \cup {FileName(cfg, table' \o <<".sql">>)}
         ]_vars
    /\ [](\A i \in 1..Len(wlog) :
            /\ ~IgnoreDecision(wlog[i].typ, wlog[i].table, cfg)
            /\ cfg.include = List(<<T1>>) => wlog[i].table = T1
            /\ (cfg.exclude = List(<<T1>>) /\ cfg.mode = "data")
                  => (wlog[i].table # T1 /\ wlog[i].typ # "schema"))

C2_Witness ==
    /\ cfg.include = List(<<T1>>) /\ ignore /\ table = T2 /\ line = Insert
    /\ Len(wlog) = 1 /\ wlog[1].table = T1

(***************************************************************************)
(* C3: every non-blank, non-comment line the body loop takes, in a dump    *)
(* whose boundary lines hold two backticks and with the operating system   *)
(* failing nothing, is either dropped with its ignored segment or          *)
(* delivered exactly once, to exactly one file.                            *)
(***************************************************************************)
C3_ExactlyOnce ==
    [][ ( /\ BodyStep
          /\ (Classify(line') # "" => TwoTicks(line'))
          /\ pc' # "error" /\ wfaults' = wfaults /\ err'.kind # "stat" )
        => \/ ignore' /\ wlog' = wlog /\ fs' = fs
           \/ /\ ~ignore'
              /\ wlog' = Append(wlog, Entry)
              /\ \A i \in 1..Len(wlog) : wlog[i].n # count'
              /\ DOMAIN fs' = DOMAIN fs \cup {out'.path}
              /\ \A g \in DOMAIN fs : g # out'.path => fs'[g] = fs[g]
              /\ fs'[out'.path] =
                    (IF out'.path \in DOMAIN fs THEN fs[out'.path] ELSE headers \o <<LF>>)
                    \o line' \o <<CRLF>>
      ]_vars

(***************************************************************************)
(* C4: per-entity mode: every delivered line of an entity is in the one    *)
(* file <entity>.sql, and each file holds the header block once, at its    *)
(* top, followed by exactly the delivered lines of that file in input      *)
(* order, also when the entity's segments are not contiguous.              *)
(***************************************************************************)
C4_EntityFile ==
    (PerEntity /\ wfaults = 0) =>
        /\ \A i \in 1..Len(wlog) :
              wlog[i].path = FileName(cfg, wlog[i].table \o <<".sql">>)
        /\ InInputOrder(wlog)
        /\ \A f \in DOMAIN fs : fs[f] = headers \o <<LF>> \o Delivered(wlog, f)

C4_Witness ==
    /\ PerEntity /\ wfaults = 0 /\ Len(wlog) = 3
    /\ wlog[1].table = T1 /\ wlog[1].typ = "schema"
    /\ wlog[2].table = T2
    /\ wlog[3].table = T1 /\ wlog[3].typ = "data"

(***************************************************************************)
(* C5: single-stream mode: the stream is opened once, holds the header     *)
(* block once as its first content and then every delivered line in input  *)
(* order whatever the entity, and stays open until the run ends.           *)
(***************************************************************************)
C5_SingleStream ==
    (SingleStream /\ wfaults = 0) =>
        IF out = NilOut THEN DOMAIN fs = {} /\ handles = <<>> /\ wlog = <<>>
        ELSE /\ out.path = <<cfg.outfile>>
             /\ DOMAIN fs = {out.path}
             /\ fs[out.path] = headers \o <<LF>> \o Delivered(wlog, out.path)
             /\ \A i \in 1..Len(wlog) : wlog[i].path = out.path
             /\ InInputOrder(wlog)
             /\ pc \in {"body", "panic"} => handles = <<out.path>>
             /\ pc = "done" => handles = <<>>

C5_Witness ==
    /\ SingleStream /\ wfaults = 0 /\ pc = "body" /\ headers # <<>>
    /\ Len(wlog) = 2 /\ wlog[1].table # wlog[2].table

(***************************************************************************)
(* C6: mode=both, entity E let through by include and exclude: with E in   *)
(* excludeData every line of E's schema segment is delivered and no line   *)
(* of E's data segment is; with E not in excludeData the lines of both     *)
(* segments are delivered.                                                 *)
(***************************************************************************)
PassesIncludeExclude(e, c) ==
    (c.include.isNil \/ Contains(c.include, e)) /\ ~Contains(c.exclude, e)

C6_ExcludeData ==
    [][ ( /\ BodyStep /\ pc' = "body" /\ wfaults' = wfaults
          /\ cfg.mode = "both" /\ PassesIncludeExclude(table', cfg) )
        => IF Contains(cfg.excludeData, table')
           THEN /\ typ' = "schema" => wlog' = Append(wlog, Entry)
                /\ typ' = "data" => (wlog' = wlog /\ fs' = fs)
           ELSE typ' \in {"schema", "data"} => wlog' = Append(wlog, Entry)
      ]_vars

C6_Witness ==
    /\ cfg.mode = "both" /\ cfg.excludeData = List(<<T1>>) /\ pc = "body"
    /\ PassesIncludeExclude(T1, cfg) /\ PassesIncludeExclude(T2, cfg)
    /\ typ = "data" /\ table = T1 /\ ignore
    /\ Len(wlog) = 2
    /\ wlog[1].table = T2 /\ wlog[1].typ = "data"
    /\ wlog[2].table = T1 /\ wlog[2].typ = "schema"

(***************************************************************************)
(* C7: at most one output handle is open in every reachable state.         *)
(***************************************************************************)
C7_OneHandle == Len(handles) <= 1

C7_Witness ==
    PerEntity /\ Cardinality(created) = 2 /\ Len(handles) = 1 /\ Len(wlog) = 3

(***************************************************************************)
(* C8: every line in every output file ends with CRLF, the lines of the    *)
(* header prologue included: no file holds a bare LF terminator.           *)
(***************************************************************************)
C8_AllCRLF == \A f \in DOMAIN fs : \A i \in 1..Len(fs[f]) : fs[f][i] # LF

(***************************************************************************)
(* C9: an output error ends the run at once with an error: once a          *)
(* directory creation, a file creation, an append-open or a write of a     *)
(* line has failed, the run is in its error state.                         *)
(***************************************************************************)
C9_OutputErrorTerminates ==
    (wfaults > 0 \/ err.kind \in {"notdir", "mkdir", "create", "open"}) => pc = "error"

(***************************************************************************)
(* C10: when start() returns an error (a failed creation or open, or a     *)
(* read error after the loop), no output handle is open.                   *)
(***************************************************************************)
C10_ErrorClosesHandles ==
    (pc = "error" \/ (pc = "done" /\ err # NoErr)) => handles = <<>>

C10_Witness ==
    /\ pc = "error" /\ err.kind \in {"create", "open"} /\ PerEntity /\ wlog # <<>>

(***************************************************************************)
(* C11: once the reader has met a line over the ceiling, no step writes    *)
(* anything (no part of that line, no later line), what was written stays, *)
(* and the run ends by returning the error of the reader.                  *)
(***************************************************************************)
C11_OversizedLine ==
    /\ [][ (rdr \in {"toolong", "drained"})
             => (fs' = fs /\ wlog' = wlog /\ created' = created)
         ]_vars
    /\ []((rdr \in {"toolong", "drained"} /\ pc \notin {"header", "body"})
            => (pc = "done" /\ err.kind = "toolong"))

(***************************************************************************)
(* C12: with neither or both of outfile and outdir set, or a mode other    *)
(* than data, schema or both, the run ends with the configuration error    *)
(* before the dump is opened: no line is scanned and no file or directory  *)
(* is created or changed.                                                  *)
(***************************************************************************)
InvalidConfig(c) ==
    \/ (c.outfile = "" /\ c.outdir = "")
    \/ (c.outfile # "" /\ c.outdir # "")
    \/ c.mode \notin {"data", "schema", "both"}

C12_InvalidConfig ==
    InvalidConfig(cfg) =>
        /\ pc \in {"start", "error"}
        /\ pc = "error" => err.kind \in {"mode", "dest"}
        /\ rdr = "open" /\ count = 0 /\ line = <<>> /\ headers = <<>>
        /\ fs = <<>> /\ created = {} /\ handles = <<>> /\ out = NilOut
        /\ dirState = "unknown" /\ wlog = <<>>

C12_Witness ==
    /\ pc = "error" /\ err.kind = "dest"
    /\ cfg.outfile # "" /\ cfg.outdir # "" /\ cfg.mode = "both"

(***************************************************************************)
(* C13: per-entity mode: the first delivered line of an entity in a run    *)
(* goes to a file created fresh, holding the header block and that line    *)
(* and nothing of what the path held before the run; every later delivered *)
(* line of the entity is appended to what the run has put there. No file   *)
(* of the run holds bytes from before the run, so a second run on the same *)
(* input and policy leaves the same bytes.                                 *)
(***************************************************************************)
C13_FreshThenAppend ==
    /\ [][ (PerEntity /\ BodyStep /\ pc' = "body" /\ wfaults' = wfaults /\ wlog' # wlog)
           => LET f == out'.path
              IN  IF f \in created
                  THEN /\ f \in DOMAIN fs /\ created' = created
                       /\ fs'[f] = fs[f] \o line' \o <<CRLF>>
                  ELSE /\ f \notin DOMAIN fs /\ created' = created \cup {f}
                       /\ fs'[f] = headers \o <<LF>> \o line' \o <<CRLF>>
         ]_vars
    /\ [](PerEntity => \A f \in DOMAIN fs : \A i \in 1..Len(fs[f]) : <<fs[f][i]>> # Stale)

C13_Witness ==
    /\ PerEntity /\ pc = "done" /\ err = NoErr /\ wfaults = 0 /\ Len(wlog) = 3
    /\ wlog[1].path = wlog[3].path /\ wlog[2].path # wlog[1].path
    /\ Cardinality(created) = 2

(***************************************************************************)
(* C14: writeLine never runs without an open destination: no step of the   *)
(* body loop on a kept line ends in a write to the nil writer, lines       *)
(* before the first boundary line included.                                *)
(***************************************************************************)
C14_WriteHasDestination ==
    [][ (BodyStep /\ ~ignore /\ Classify(line') = "")
        => (out # NilOut /\ err'.kind # "nilwriter")
      ]_vars

(***************************************************************************)
(* C15: the line that ends header capture (the first non-blank,            *)
(* non-comment line not beginning with the directive marker) is held, and  *)
(* the next step runs the body loop on exactly that line, once: it is      *)
(* classified, the filter is applied, and it is delivered if kept; it is   *)
(* never handed out again and never delivered twice.                       *)
(***************************************************************************)
C15_PushbackOnce ==
    /\ [][ /\ (pc = "header" /\ pc' = "body" /\ rdr' = "open")
              => /\ skip' /\ count' = count + 1 /\ ~IsSkippable(line')
                 /\ ~HasPrefix(line', HeaderPrefix)
                 /\ headers' = headers /\ wlog' = wlog /\ fs' = fs
           /\ skip
              => /\ ~skip' /\ line' = line /\ count' = count /\ rdr' = rdr
                 /\ headers' = headers
                 /\ IF Classify(line) = "" THEN typ' = typ /\ table' = table /\ ignore' = ignore
                    ELSE err'.kind # "slice"
                            => /\ typ' = Classify(line)
                               /\ ignore' = IgnoreDecision(typ', table', cfg)
                 /\ (pc' = "body" /\ wfaults' = wfaults)
                       => IF ignore' THEN wlog' = wlog /\ fs' = fs
                          ELSE wlog' = Append(wlog, Entry)
           /\ (~skip /\ pc # "header") => ~skip'
         ]_vars
    /\ [](\A i, j \in 1..Len(wlog) : wlog[i].n = wlog[j].n => i = j)

C15_Witness ==
    /\ pc = "body" /\ ~skip /\ headers = Directive \o <<LF>> /\ count = 2
    /\ Len(wlog) = 1 /\ wlog[1].n = 2 /\ wlog[1].text = line

(***************************************************************************)
(* C16: the body loop sets the kind to view, schema or data exactly on a   *)
(* line that begins with the view, schema or data marker (tested in that   *)
(* order, matching case); every other line, a marker in another case or    *)
(* not at the start of the line included, leaves kind and entity as they   *)
(* were.                                                                   *)
(***************************************************************************)
C16_Boundary ==
    [][ BodyStep
        => LET l == line'
           IN  IF HasPrefix(l, ViewPrefix) THEN typ' = "view"
               ELSE IF HasPrefix(l, SchemaPrefix) THEN typ' = "schema"
               ELSE IF HasPrefix(l, DataPrefix) THEN typ' = "data"
               ELSE typ' = typ /\ table' = table
      ]_vars

C16_Witness ==
    /\ pc = "body" /\ line = Indented /\ typ = "data" /\ table = T2
    /\ Len(wlog) = 2 /\ wlog[2].text = Indented /\ wlog[2].typ = "data"

(***************************************************************************)
(* C17: the ignore flag changes only in a step of the body loop on a       *)
(* boundary line; a line inside a segment leaves it as the boundary line   *)
(* set it and is treated as the boundary line was: delivered when the flag *)
(* is clear, and no output touched when it is set.                         *)
(***************************************************************************)
C17_SegmentUniform ==
    [][ /\ (ignore' # ignore) => (BodyStep /\ Classify(line') # "")
        /\ (BodyStep /\ pc' = "body" /\ wfaults' = wfaults)
              => /\ (Classify(line') = "" /\ typ # "") => ignore' = ignore
                 /\ IF ignore' THEN wlog' = wlog /\ fs' = fs /\ created' = created
                    ELSE wlog' = Append(wlog, Entry)
      ]_vars

C17_Witness ==
    /\ pc = "body" /\ ignore /\ line = Insert /\ count = 3 /\ typ = "schema"
    /\ Len(wlog) = 1 /\ wlog[1].n = 1

(***************************************************************************)
(* C18: on a boundary line of any kind that holds at least two backticks,  *)
(* the entity becomes exactly what stands strictly between the first and   *)
(* the last backtick of the line: empty when they are adjacent, and with   *)
(* the inner backticks when there are more than two.                       *)
(***************************************************************************)
Ticks(l) == {i \in 1..Len(l) : l[i] = BT}

Between(l) ==
    LET first == CHOOSE i \in Ticks(l) : \A j \in Ticks(l) : i <= j
        last == CHOOSE i \in Ticks(l) : \A j \in Ticks(l) : j <= i
    IN  [k \in 1..(last - first - 1) |-> l[first + k]]

C18_EntityName ==
    [][ (BodyStep /\ Classify(line') # "" /\ Cardinality(Ticks(line')) >= 2)
        => (table' = Between(line') /\ err'.kind # "slice")
      ]_vars

C18_Witness ==
    /\ pc = "body" /\ line = LockTwo /\ typ = "data"
    /\ table = T1 \o <<BT, " WRITE, ", BT>> \o T2
    /\ wlog # <<>> /\ wlog[Len(wlog)].table = table /\ wlog[Len(wlog)].text = LockTwo

(***************************************************************************)
(* C19, as stated: a boundary line with fewer than two backticks does not  *)
(* abort the run; the scan carries on with a wrong or empty entity.        *)
(***************************************************************************)
FewTicks(l) == Classify(l) # "" /\ Cardinality(Ticks(l)) < 2

C19_CarriesOn ==
    [][ (BodyStep /\ FewTicks(line')) => pc' # "panic" ]_vars

(***************************************************************************)
(* C19, amended: a boundary line with fewer than two backticks aborts the  *)
(* run in scanTableName with a slice-bounds panic: the kind is already set *)
(* from the prefix, the entity and the ignore flag keep their values, no   *)
(* file is created or written, and nothing runs afterwards.                *)
(***************************************************************************)
C19_SlicePanic ==
    [][ /\ (BodyStep /\ FewTicks(line'))
              => /\ pc' = "panic" /\ err'.kind = "slice"
                 /\ typ' = Classify(line') /\ table' = table /\ ignore' = ignore
                 /\ fs' = fs /\ created' = created /\ wlog' = wlog
                 /\ handles' = handles /\ out' = out
        /\ pc # "panic"
      ]_vars

C19_Witness ==
    /\ pc = "panic" /\ err.kind = "slice" /\ line = OneTick /\ typ = "data"
    /\ table = T1 /\ Len(wlog) = 2 /\ Len(handles) = 1

(***************************************************************************)
(* C20: after the first loop has ended the header block never changes: a   *)
(* later line beginning with the directive marker is a line of the body    *)
(* loop (a view boundary, or a line of the current segment, delivered when *)
(* kept), and every per-entity file of the run begins with the same header *)
(* block.                                                                  *)
(***************************************************************************)
C20_HeaderFrozen ==
    /\ [][ /\ pc # "header" => headers' = headers
           /\ (BodyStep /\ HasPrefix(line', HeaderPrefix))
                 => /\ typ' = (IF HasPrefix(line', ViewPrefix) THEN "view" ELSE typ)
                    /\ (pc' = "body" /\ wfaults' = wfaults /\ ~ignore')
                          => wlog' = Append(wlog, Entry)
         ]_vars
    /\ []((PerEntity /\ wfaults = 0)
            => \A f \in DOMAIN fs : HasPrefix(fs[f], headers \o <<LF>>))

C20_Witness ==
    /\ PerEntity /\ pc = "body" /\ headers = Directive \o <<LF>> /\ count = 3
    /\ line = Directive /\ Len(wlog) = 2 /\ wlog[2].text = Directive
    /\ fs[out.path] = headers \o <<LF>> \o wlog[1].text \o <<CRLF>> \o Directive \o <<CRLF>>

(***************************************************************************)
(* C21: in the first loop every non-blank, non-comment line beginning with *)
(* the directive marker is appended to the header block, a line beginning  *)
(* with the view marker included: the step leaves kind, entity and ignore  *)
(* flag alone, opens and creates nothing and delivers nothing; nothing is  *)
(* delivered before the first loop has ended, so such a line reaches the   *)
(* output only inside the header block at the top of a file.               *)
(***************************************************************************)
C21_HeaderTakesViewLines ==
    /\ [][ /\ ( /\ pc = "header" /\ count' = count + 1
                /\ ~IsSkippable(line') /\ HasPrefix(line', HeaderPrefix) )
              => /\ headers' = headers \o line' \o <<LF>>
                 /\ pc' = "header" /\ ~skip'
                 /\ typ' = typ /\ table' = table /\ ignore' = ignore
                 /\ out' = out /\ handles' = handles /\ created' = created
                 /\ fs' = fs /\ wlog' = wlog /\ err' = err
           /\ wlog' # wlog => pc = "body"
         ]_vars
    /\ [](pc = "header" => ( /\ typ = "" /\ table = <<>> /\ ~ignore /\ out = NilOut
                             /\ created = {} /\ fs = <<>> /\ wlog = <<>> ))

C21_Witness ==
    /\ PerEntity /\ pc = "body" /\ wfaults = 0
    /\ headers = DropView(T2) \o <<LF>> /\ count = 2
    /\ typ = "schema" /\ table = T1 /\ created = {out.path}
    /\ fs[out.path] = DropView(T2) \o <<LF, LF>> \o DropTable(T1) \o <<CRLF>>

(***************************************************************************)
(* C22: a step that reads a blank line or a line beginning with the        *)
(* comment marker changes the counter and nothing else of the scan: the    *)
(* loop it is in, the pushback flag, the header block, kind, entity,       *)
(* ignore flag, destination, files and delivered lines stay as they were;  *)
(* no such line is ever delivered or stands in the header block.           *)
(***************************************************************************)
C22_SkippedLines ==
    /\ [][ (count' = count + 1 /\ IsSkippable(line'))
           => /\ pc' = pc /\ skip' = skip /\ headers' = headers
              /\ typ' = typ /\ table' = table /\ ignore' = ignore
              /\ out' = out /\ handles' = handles /\ created' = created
              /\ fs' = fs /\ wlog' = wlog /\ err' = err
         ]_vars
    /\ [](\A i \in 1..Len(wlog) : ~IsSkippable(wlog[i].text))
    /\ [](\A i \in 1..Len(headers) :
            /\ headers[i] # "--"
            /\ headers[i] = LF => (i > 1 /\ headers[i - 1] # LF))

C22_Witness ==
    /\ pc = "header" /\ count = 3 /\ line = Directive
    /\ headers = Directive \o <<LF>> \o Directive \o <<LF>>

(***************************************************************************)
(* C23: the counter never decreases and grows by exactly one in a step     *)
(* that takes a raw line from a reader that has not failed (blank and      *)
(* comment lines included), and in no other step: the pushed-back line is  *)
(* not counted again.  When the reader has failed the run ends with no     *)
(* output handle open and the error carries the number of the failing      *)
(* line: the raw lines taken before the failure, plus one.                 *)
(***************************************************************************)
\* raw lines the reader delivered whole: the held part of a line over the
\* ceiling is counted by the counter but is no line taken
RawTaken == IF rdr = "drained" THEN count - 1 ELSE count

C23_LineCounter ==
    /\ [][ /\ count' = count \/ (count' = count + 1 /\ rdr = "open" /\ rdr' = "open")
           /\ skip => count' = count
         ]_vars
    /\ []((pc = "done" /\ rdr \in {"ioerr", "toolong", "drained"})
            => (handles = <<>> /\ err # NoErr /\ err.line = RawTaken + 1))

====
